---- MODULE Spec2Model ----
(***************************************************************************)
(* Model of datalogger/Logger.py (class TLX00) and of the DataListener     *)
(* interface of datalogger/DataListener.py: the acquisition loop, the      *)
(* device list, the listener list, the sensor registry and the frame       *)
(* parser.                                                                 *)
(***************************************************************************)
EXTENDS Integers, Sequences, FiniteSets, TLC

(***************************************************************************)
(* Program constants                                                       *)
(***************************************************************************)
TIME_OFFSET == 946681200
FrameLen == 64
SyncInterval == 900
DeleteInterval == 86400
MaxDeviceErrors == 10
SleepSeconds == 4
DeviceCheckInterval == 60
RecordLimit == 55
OpSetTime == 4
OpDelete == 13
OpData == 3

(***************************************************************************)
(* Bounds of the model                                                     *)
(***************************************************************************)
\* Passes of the outer loop in a run with the full environment (Spec) and
\* in a run over many passes with a plain environment (SpecLong).
MaxCycles == 2
MaxLongCycles == 17
\* Events of the environment in a run: exchanges that fail on a usable
\* device, pauses of the process, loggers plugged in or unplugged.
MaxEvents == 1
\* Calls of parseData on one frame.
MaxCalls == 2

\* The wall clock when the program starts (a date in 2023).
NowStart == 1700000000

\* The loggers that can be attached, named by their place in the enumeration.
DevIds == {1, 2}
GoodListeners == {"good", "log"}
BadListeners == {"bad"}
ListenerIds == GoodListeners \cup BadListeners
\* The 'output' sections of the configuration file: the objects handed to
\* registerDataListener, in order; "other" is an object that is no DataListener.
OutputSections ==
    {<< >>, <<"good", "bad">>, <<"bad", "good">>, <<"good", "log">>, <<"other", "good">>}
LongOutputSections == {<<"good">>, <<"bad">>}
\* Seconds from one pass to the next: the sleep alone, or a pause of the
\* process that makes the time sync or the flash erase due.
TimeSteps == {SleepSeconds, SyncInterval + 1, DeleteInterval + 1}
LongTimeSteps == {SleepSeconds}

(***************************************************************************)
(* Sequences as Python lists                                               *)
(***************************************************************************)
Range(s) == {s[i] : i \in 1..Len(s)}

\* list.index: the first position holding x (0 when absent).
IndexOf(s, x) ==
    IF x \in Range(s) THEN CHOOSE i \in 1..Len(s) : s[i] = x /\ \A j \in 1..(i-1) : s[j] # x
    ELSE 0

\* list.remove(x): drops the first element equal to x.
ListRemove(s, x) ==
    LET i == IndexOf(s, x)
    IN  IF i = 0 THEN s ELSE SubSeq(s, 1, i-1) \o SubSeq(s, i+1, Len(s))

\* The element a Python list iterator yields after it has yielded i elements.
IterNext(ls, i) == ls[i + 1]

RECURSIVE SetToList(_)
\* list(usb.core.find(...)): the matching devices in enumeration (bus) order.
SetToList(S) ==
    IF S = {} THEN << >>
    ELSE LET m == CHOOSE x \in S : \A y \in S : x <= y
         IN  <<m>> \o SetToList(S \ {m})

(***************************************************************************)
(* Frames: 64 bytes, indexed 0..63                                         *)
(***************************************************************************)
MkFrame(prefix) ==
    [i \in 0..(FrameLen-1) |-> IF i < Len(prefix) THEN prefix[i+1] ELSE 0]

ZeroFrame == MkFrame(<< >>)

\* int.to_bytes(4, byteorder='little')[i]
ByteLE(t, i) ==
    CASE i = 0 -> t % 256
      [] i = 1 -> (t \div 256) % 256
      [] i = 2 -> (t \div 65536) % 256
      [] i = 3 -> (t \div 16777216) % 256

(***************************************************************************)
(* Sensor registry                                                         *)
(***************************************************************************)
TemperatureSensor(id, type, name) ==
    [kind |-> "Temperature", id |-> id, type |-> type, name |-> name]
HumiditySensor(id, type, name) ==
    [kind |-> "Humidity", id |-> id, type |-> type, name |-> name]

\* dict assignment self.sensors[k] = v
Put(sens, k, v) == [i \in DOMAIN sens \cup {k} |-> IF i = k THEN v ELSE sens[i]]

\* A registry update that keeps nothing but the sensor it adds.
addSensor_Forget(sens, sensorid) ==
    [i \in {sensorid} |->
        IF sensorid % 2 = 0 THEN TemperatureSensor(sensorid, "Unknown", "Unknown")
        ELSE HumiditySensor(sensorid, "Unknown", "Unknown")]

\* A guess that takes even ids for humidity and odd ids for temperature.
addSensor_Swapped(sens, sensorid) ==
    Put(sens, sensorid,
        IF sensorid % 2 = 1 THEN TemperatureSensor(sensorid, "Unknown", "Unknown")
        ELSE HumiditySensor(sensorid, "Unknown", "Unknown"))

addSensor(sens, sensorid) ==
    LET s1 == IF sensorid % 2 = 0
              THEN Put(sens, sensorid, TemperatureSensor(sensorid, "Unknown", "Unknown"))
              ELSE sens
    IN  IF sensorid % 2 = 1
        THEN Put(s1, sensorid, HumiditySensor(sensorid, "Unknown", "Unknown"))
        ELSE s1

EmptySensors == [i \in {} |-> TemperatureSensor(0, "Unknown", "Unknown")]

\* readConfigFile with one 'TSN-TH70E' entry of id 4: sensor 4 and sensor 5.
ConfiguredSensors ==
    Put(Put(EmptySensors, 4, TemperatureSensor(4, "TSN-TH70E", "cellar")),
        5, HumiditySensor(5, "TSN-TH70E", "cellar"))

(***************************************************************************)
(* parseData                                                               *)
(***************************************************************************)
IsMarker(b) == b = 9 \/ b = 10

\* A scan that takes no byte for the end of the records.
IsEnd_Never(b) == FALSE

\* if data[pos] == 255: break
IsEnd(b) == b = 255

\* A room test that asks for a tenth byte behind the record.
RecordFits_Early(pos) == pos + 9 < RecordLimit

\* ... and pos < 55
RecordFits(pos) == pos < RecordLimit

SensorId(data, pos) == data[pos+1] + 256 * data[pos+2]
RawValue(data, pos) == 256 * data[pos+3] + data[pos+4]

\* A Python int too wide for a machine word, kept as two 16-bit halves:
\* the value is hi * 65536 + lo.
Wide(hi, lo) == [hi |-> hi, lo |-> lo]

\* w + n for a wide w and 0 <= n < 2^31.
WideAdd(w, n) ==
    LET lo == w.lo + (n % 65536)
    IN  Wide(w.hi + (n \div 65536) + (lo \div 65536), lo % 65536)

\* int.from_bytes([data[pos+5], ..., data[pos+8]], byteorder='little')
TimeStamp(data, pos) ==
    Wide(data[pos+7] + 256 * data[pos+8], data[pos+5] + 256 * data[pos+6])

Signal(data, pos) == IF data[pos] = 10 THEN <<data[pos+9]>> ELSE << >>

CursorAdvance == 8

\* A byte the loop passes without effect: 0 (continue), and any byte that
\* is neither the end marker nor a record marker with room for a record.
Passed(b, p) == ~IsEnd(b) /\ ~(IsMarker(b) /\ RecordFits(p))

\* The first position after pos at which the loop does more than pass the
\* byte, or FrameLen when the loop test ends the scan first.
NextStop(data, pos) ==
    LET stops == {p \in (pos + 1)..(FrameLen - 1) : ~Passed(data[p], p)}
    IN  IF stops = {} THEN FrameLen
        ELSE CHOOSE p \in stops : \A q \in stops : p <= q

\* The outcome r of the rest of a call, with the positions seen examined
\* before it.
Examined(seen, r) == [r EXCEPT !.scanned = seen \o @, !.reads = Range(seen) \cup @]

\* Indices read as if every record had two bytes behind its timestamp.
ReadsOf_Wide(data, pos) == pos..(pos + 10)

\* The indices of data read for the record at pos: the marker, the eight
\* bytes of id, value and timestamp, and data[pos+9] for a marker 10.
ReadsOf(data, pos) == pos..(pos + 8) \cup (IF data[pos] = 10 THEN {pos + 9} ELSE {})

RECURSIVE parseLoop(_, _, _, _, _)
\* The while loop of parseData; pos is the cursor before the loop test.
\* The iterations that only pass a byte are taken in one step.  Result: the
\* datapoints, the registry after the call, whether the call raised
\* (KeyError of self.sensors[sensorid]), and the positions whose byte the
\* loop has examined (data[pos] after pos += 1), and the indices of data
\* the call has read.
parseLoop(data, pos, sens, detect, acc) ==
    LET p == NextStop(data, pos)
        seen == [i \in 1..((IF p < FrameLen THEN p ELSE FrameLen - 1) - pos) |-> pos + i]
    IN  IF p = FrameLen
        THEN [points |-> acc, sensors |-> sens, raised |-> FALSE, scanned |-> seen,
              reads |-> Range(seen)]
        ELSE IF IsEnd(data[p])
        THEN [points |-> acc, sensors |-> sens, raised |-> FALSE, scanned |-> seen,
              reads |-> Range(seen)]
        ELSE LET sensorid == SensorId(data, p)
                 sens2 == IF detect /\ sensorid \notin DOMAIN sens
                          THEN addSensor(sens, sensorid)
                          ELSE sens
             IN  IF sensorid \notin DOMAIN sens2
                 THEN [points |-> << >>, sensors |-> sens2, raised |-> TRUE,
                       scanned |-> seen, reads |-> Range(seen) \cup ReadsOf(data, p)]
                 ELSE Examined(seen,
                        [parseLoop(data, p + CursorAdvance, sens2, detect,
                               Append(acc, [sensorid  |-> sensorid,
                                            rawvalue  |-> RawValue(data, p),
                                            timestamp |-> WideAdd(TimeStamp(data, p), TIME_OFFSET),
                                            signal    |-> Signal(data, p),
                                            sensor    |-> sens2[sensorid]]))
                            EXCEPT !.reads = ReadsOf(data, p) \cup @])

parseData(data, sens, detect) == parseLoop(data, -1, sens, detect, << >>)

(***************************************************************************)
(* Responses a device may give to a data request                           *)
(***************************************************************************)
\* One record of sensor 5 (marker 9), then the end marker.
FrameOne == MkFrame(<<9, 5, 0, 0, 42, 16, 0, 0, 0, 255>>)
\* A marker-10 record of sensor 4 followed by a marker-9 record of sensor 5.
FrameTwo == MkFrame(<<10, 4, 0, 0, 42, 16, 0, 0, 0, 99,
                      9, 5, 0, 1, 7, 17, 0, 0, 0, 255>>)
\* Sensors 4, 7, 5: sensor 7 is not configured.
FrameUnknown == MkFrame(<<9, 4, 0, 0, 42, 16, 0, 0, 0,
                          9, 7, 0, 0, 43, 17, 0, 0, 0,
                          9, 5, 0, 0, 44, 18, 0, 0, 0, 255>>)
\* Two leading zero bytes followed by a well-formed record of sensor 4.
FrameZeroLead == MkFrame(<<0, 0, 9, 4, 0, 0, 42, 16, 0, 0, 0, 255>>)

Responses == {ZeroFrame, FrameZeroLead, FrameTwo, FrameUnknown}
LongResponses == {ZeroFrame, FrameOne}

(***************************************************************************)
(* Frames handed to parseData on its own: a record whose marker is at      *)
(* position s, the byte that follows the record, and a fill for the rest   *)
(* of the frame.  A marker at 55 or later leaves no room for a record.     *)
(***************************************************************************)
ParseStarts == {0, 1, 45, 46, 54, 55, 63}
ParseMarkers == {9, 10}
\* The 8 bytes after a marker: sensor 4; sensor 5 with bytes 255 and 9 in
\* the value and the largest timestamp; the sensors 7 and 264 no
\* configuration names.
ParsePayloads ==
    {<<4, 0, 0, 42, 16, 0, 0, 0>>,
     <<5, 0, 255, 9, 255, 255, 255, 255>>,
     <<7, 0, 1, 2, 3, 4, 5, 6>>,
     <<8, 1, 2, 3, 4, 5, 6, 7>>}
ParseAfter == {0, 1, 9, 10, 255}
ParseFill == {0, 4, 255}

ParseFrame(s, m, pay, after, fill) ==
    [i \in 0..(FrameLen-1) |->
        IF i < s THEN 0
        ELSE IF i = s THEN m
        ELSE IF i <= s + 8 THEN pay[i - s]
        ELSE IF i = s + 9 THEN after
        ELSE fill]

\* The frames that hold a marker in every byte: records back to back from
\* position 0 on, the last one at 54.
ParseDense == {[i \in 0..(FrameLen-1) |-> m] : m \in ParseMarkers}

ParseFrames ==
    {ParseFrame(s, m, pay, after, fill) :
        s \in ParseStarts, m \in ParseMarkers, pay \in ParsePayloads,
        after \in ParseAfter, fill \in ParseFill}
    \cup {FrameTwo, FrameUnknown, FrameZeroLead}
    \cup ParseDense

(***************************************************************************)
(* State                                                                   *)
(*                                                                         *)
(* d.lastTimeDataRead is written by the loop and read nowhere; it is left  *)
(* out.  The locals of loop() (dev, rawdata, datapoints and the iterators) *)
(* are cleared where the code can no longer read them before it assigns    *)
(* them again.                                                             *)
(***************************************************************************)
VARIABLES
    devices,              \* self.devices
    listeners,            \* self.listeners
    sensors,              \* self.sensors
    detectUnknownSensors, \* self.detectUnknownSensors
    requestBuffer,        \* self.requestBuffer
    lastDeviceCheck,      \* self.lastDeviceCheck
    deviceErrors,         \* d.deviceErrors of each device object
    lastTimeSync,         \* d.lastTimeSync
    lastTimeDelete,       \* d.lastTimeDelete
    hasEndpoints,         \* d.outAddress and d.inAddress are set
    output,               \* entries of the 'output' section still to be read
    pc,                   \* position of the main thread
    retpc,                \* where initializeDevices returns to
    devIdx,               \* iterator of "for dev in self.devices" (loop)
    initIdx,              \* iterator of "for d in self.devices" (initializeDevices)
    dev,                  \* loop variable dev
    rawdata,              \* frame read by the data poll
    datapoints,           \* result of the parseData call
    ptIdx,                \* iterator of "for datapoint in datapoints"
    lIdx,                 \* iterator of "for l in self.listeners"
    now,                  \* time.time()
    bus,                  \* devices enumerated by usb.core.find
    cycle,                \* passes of the outer while loop started
    events,               \* events of the environment so far
    history               \* observation of the run, see HistoryInit

progVars == <<devices, listeners, sensors, detectUnknownSensors, requestBuffer,
              lastDeviceCheck, deviceErrors, lastTimeSync, lastTimeDelete,
              hasEndpoints>>
loopVars == <<output, pc, retpc, devIdx, initIdx, dev, rawdata, datapoints, ptIdx, lIdx>>
envVars == <<now, bus, cycle, events>>
vars == <<progVars, loopVars, envVars, history>>

(***************************************************************************)
(* history records what an observer of the run sees:                       *)
(*   delivered   onNewData calls that returned, for the frame in delivery, *)
(*               as <<listener, index of the point>> in call order         *)
(*   raised      listeners whose onNewData raised during that frame        *)
(*   mutated     the listener list changed during that frame               *)
(*   parsed      the frame last handed to parseData in this device's turn  *)
(*   ops         <<device, opcode>> of the requests made in this cycle    *)
(*   atStart     the device list at the start of this cycle                *)
(*   removed     devices the except clause removed in this cycle           *)
(*   dropped     loggers the except clause has removed in any cycle        *)
(*   streak      per device object, the data polls that have failed in a   *)
(*               row since the last one that was answered                  *)
(*   entered     Len(listeners) when loop() was entered, -1 before         *)
(*   xdev, xop, xok   device, opcode and outcome of the exchange of the    *)
(*               last step of the main thread (xop = 0: no exchange)       *)
(*   lfault      the last step of the main thread was a raising onNewData  *)
(*   calls       the outcomes of the parseData calls made on their own     *)
(*   initfail    devices whose initialization raised, since the last       *)
(*               findDevices                                               *)
(***************************************************************************)
HistoryInit ==
    [delivered |-> << >>, raised |-> {}, mutated |-> FALSE, parsed |-> << >>,
     ops |-> {}, atStart |-> << >>, removed |-> {},
     streak |-> [d \in DevIds |-> 0], entered |-> -1,
     xdev |-> 0, xop |-> 0, xok |-> FALSE, lfault |-> FALSE, calls |-> << >>,
     initfail |-> {}, dropped |-> {}, failed |-> {}, failedPrev |-> {}]

NoExchange(h) == [h EXCEPT !.xdev = 0, !.xop = 0, !.xok = FALSE, !.lfault = FALSE]

Exchange(h, d, op, ok) ==
    [h EXCEPT !.xdev = d, !.xop = op, !.xok = ok, !.lfault = FALSE,
              !.ops = @ \cup {<<d, op>>},
              !.streak[d] = IF op # OpData THEN @ ELSE IF ok THEN 0 ELSE @ + 1]

\* The observation of one frame's fan-out, cleared.
\* A maintenance exchange of loop(): besides the exchange, a failure is
\* noted for the cycle it happened in.
Maintenance(h, d, op, ok) ==
    [Exchange(h, d, op, ok) EXCEPT
        !.failed = IF ok THEN @ \ {<<d, op>>} ELSE @ \cup {<<d, op>>}]

NoFrame(h) == [h EXCEPT !.delivered = << >>, !.raised = {}, !.mutated = FALSE]

(***************************************************************************)
(* Request frames                                                          *)
(***************************************************************************)
\* A clearing that resets the opcode byte only.
clearRequestBuffer_Opcode(buf) == [buf EXCEPT ![0] = 0]

\* for i in range(0,5): self.requestBuffer[i]=0
clearRequestBuffer(buf) ==
    [i \in 0..(FrameLen-1) |-> IF i \in 0..4 THEN 0 ELSE buf[i]]

SetTimeFrame(buf, t) ==
    [i \in 0..(FrameLen-1) |->
        IF i = 0 THEN OpSetTime
        ELSE IF i \in 1..4 THEN ByteLE(t - TIME_OFFSET, i - 1)
        ELSE clearRequestBuffer(buf)[i]]

DeleteFrame(buf) == [clearRequestBuffer(buf) EXCEPT ![0] = OpDelete]

DataRequestFrame(buf) == [clearRequestBuffer(buf) EXCEPT ![0] = OpData]

(***************************************************************************)
(* Conditions of the loop                                                  *)
(***************************************************************************)
\* A loop test that lets a pass start with an empty listener list.
LoopCondition_NonNegative(ls) == Len(ls) >= 0

\* while len(self.listeners) > 0
LoopCondition(ls) == Len(ls) > 0

SyncDue(t, d) == t - lastTimeSync[d] > SyncInterval

DeleteDue(t, d) == t - lastTimeDelete[d] > DeleteInterval

\* A test that takes only the all-zero frame for "no new data".
NoNewData_WholeFrame(data) == \A i \in 0..(FrameLen-1) : data[i] = 0

\* if rawdata[0]==0 and rawdata[1]==0: break
NoNewData(data) == data[0] = 0 /\ data[1] = 0

\* if dev.deviceErrors > 10
TooManyErrors(n) == n > MaxDeviceErrors

DeviceCheckDue(t) == t > lastDeviceCheck + DeviceCheckInterval

\* onNewData of the DataListener base class raises NotImplementedError;
\* the listeners of BadListeners do not override it.
Raises(l) == l \in BadListeners

(***************************************************************************)
(* The transport.  A write/read exchange with a device whose endpoint      *)
(* addresses are not set (AttributeError) or which is not attached fails;  *)
(* with any other device it succeeds or, while the run has events left,    *)
(* fails.                                                                  *)
(***************************************************************************)
Usable(d, endpoints) == endpoints[d] /\ d \in bus

Transfer(d, endpoints, ok) ==
    IF Usable(d, endpoints)
    THEN /\ ok \/ events < MaxEvents
         /\ events' = IF ok THEN events ELSE events + 1
    ELSE /\ ~ok
         /\ events' = events

(***************************************************************************)
(* Initial state: the object after __init__, before the configuration is   *)
(* read                                                                    *)
(***************************************************************************)
InitOn(sections, attached) ==
    /\ output \in sections
    /\ devices = << >>
    /\ listeners = << >>
    /\ sensors = ConfiguredSensors
    /\ detectUnknownSensors \in BOOLEAN
    /\ requestBuffer = ZeroFrame
    /\ lastDeviceCheck = 0
    /\ deviceErrors = [d \in DevIds |-> 0]
    /\ lastTimeSync = [d \in DevIds |-> 0]
    /\ lastTimeDelete = [d \in DevIds |-> 0]
    /\ hasEndpoints = [d \in DevIds |-> FALSE]
    /\ pc = "config"
    /\ retpc = "enter"
    /\ devIdx = 0
    /\ initIdx = 0
    /\ dev = 0
    /\ rawdata = ZeroFrame
    /\ datapoints = << >>
    /\ ptIdx = 0
    /\ lIdx = 0
    /\ now = NowStart
    /\ bus \in attached
    /\ cycle = 0
    /\ events = 0
    /\ history = HistoryInit

\* Both loggers attached when the program starts.
InitWith(sections) == InitOn(sections, {DevIds})

Init == InitWith(OutputSections)

InitLong == InitWith(LongOutputSections)

\* A run that starts with one logger or both attached.
BusOutputSections == {<<"good">>, <<"bad">>}
InitBus == InitOn(BusOutputSections, SUBSET DevIds \ {{}})

\* parseData called on its own: an object whose registry is empty or
\* configured, with detection on or off, and a frame to parse.
InitParse ==
    /\ output = << >>
    /\ devices = << >>
    /\ listeners = << >>
    /\ sensors \in {EmptySensors, ConfiguredSensors}
    /\ detectUnknownSensors \in BOOLEAN
    /\ requestBuffer = ZeroFrame
    /\ lastDeviceCheck = 0
    /\ deviceErrors = [d \in DevIds |-> 0]
    /\ lastTimeSync = [d \in DevIds |-> 0]
    /\ lastTimeDelete = [d \in DevIds |-> 0]
    /\ hasEndpoints = [d \in DevIds |-> FALSE]
    /\ pc = "parse"
    /\ retpc = "parse"
    /\ devIdx = 0
    /\ initIdx = 0
    /\ dev = 0
    /\ rawdata \in ParseFrames
    /\ datapoints = << >>
    /\ ptIdx = 0
    /\ lIdx = 0
    /\ now = NowStart
    /\ bus = DevIds
    /\ cycle = 0
    /\ events = 0
    /\ history = HistoryInit

(***************************************************************************)
(* registerDataListener / unregisterDataListener                           *)
(***************************************************************************)
\* Called for each entry of the 'output' section while the configuration
\* is read; an object that is no DataListener is ignored.
isDataListener(l) == l \in ListenerIds

registerDataListener(l) ==
    IF isDataListener(l) THEN Append(listeners, l) ELSE listeners

\* readConfigFile, one entry of the 'output' section.
ReadOutputEntry ==
    /\ pc = "config"
    /\ output # << >>
    /\ listeners' = registerDataListener(Head(output))
    /\ output' = Tail(output)
    /\ UNCHANGED <<devices, sensors, detectUnknownSensors, requestBuffer,
                   lastDeviceCheck, deviceErrors, lastTimeSync, lastTimeDelete,
                   hasEndpoints, pc, retpc, devIdx, initIdx, dev, rawdata,
                   datapoints, ptIdx, lIdx, envVars, history>>

\* Called from another thread while loop() runs, or by a listener inside
\* its onNewData; removing an unknown listener is caught and changes nothing.
\* The main thread reads the list at the loop test and in the fan-out only,
\* so the call is placed before those steps.
UnregisterPoints == {"while", "deliver"}

unregisterDataListener(l) ==
    /\ pc \in UnregisterPoints
    /\ listeners' = ListRemove(listeners, l)
    /\ history' = [history EXCEPT !.mutated = @ \/ (l \in Range(listeners))]
    /\ UNCHANGED <<devices, sensors, detectUnknownSensors, requestBuffer,
                   lastDeviceCheck, deviceErrors, lastTimeSync, lastTimeDelete,
                   hasEndpoints, loopVars, envVars>>

(***************************************************************************)
(* findDevices / checkForNewDevices / initializeDevices                    *)
(***************************************************************************)
\* The attributes findDevices gives the device objects it has just created.
FreshAttr(f, v) == [d \in DevIds |-> IF d \in bus THEN v ELSE f[d]]

findDevices(t) ==
    /\ lastDeviceCheck' = t
    /\ devices' = SetToList(bus)
    /\ deviceErrors' = FreshAttr(deviceErrors, 0)
    /\ lastTimeSync' = FreshAttr(lastTimeSync, 0)
    /\ lastTimeDelete' = FreshAttr(lastTimeDelete, 0)
    /\ hasEndpoints' = FreshAttr(hasEndpoints, FALSE)

\* The observation of the device objects findDevices has replaced, restarted.
Rediscovered(h) ==
    [h EXCEPT !.streak = FreshAttr(@, 0), !.ops = {}, !.initfail = {},
              !.failed = {}, !.failedPrev = {}]

\* numdevices != len(self.devices)
checkForNewDevices == Cardinality(bus) # Len(devices)

\* The start of the program: findDevices(), then initializeDevices(), then
\* loop().
StartUp ==
    /\ pc = "config"
    /\ output = << >>
    /\ findDevices(now)
    /\ pc' = "initdev"
    /\ retpc' = "enter"
    /\ initIdx' = 0
    /\ history' = Rediscovered(history)
    /\ UNCHANGED <<listeners, sensors, detectUnknownSensors, requestBuffer,
                   output, devIdx, dev, rawdata, datapoints, ptIdx, lIdx, envVars>>

\* One pass of "for d in self.devices" of initializeDevices: either the
\* endpoints are resolved and setTime(d) runs, or an exception is caught
\* and d is removed from the list being iterated.
initializeDevices ==
    /\ pc = "initdev"
    /\ IF initIdx < Len(devices)
       THEN LET d == IterNext(devices, initIdx)
            IN  /\ initIdx' = initIdx + 1
                /\ pc' = pc
                /\ \/ /\ d \in bus
                      /\ hasEndpoints' = [hasEndpoints EXCEPT ![d] = TRUE]
                      /\ requestBuffer' = SetTimeFrame(requestBuffer, now)
                      /\ \E ok \in BOOLEAN :
                            /\ Transfer(d, hasEndpoints', ok)
                            /\ lastTimeSync' = [lastTimeSync EXCEPT ![d] = IF ok THEN now ELSE @]
                            /\ history' = Exchange(history, d, OpSetTime, ok)
                      /\ UNCHANGED devices
                   \/ /\ IF d \in bus
                         THEN events < MaxEvents /\ events' = events + 1
                         ELSE events' = events
                      /\ devices' = ListRemove(devices, d)
                      /\ history' = [NoExchange(history) EXCEPT !.initfail = @ \cup {d}]
                      /\ UNCHANGED <<hasEndpoints, requestBuffer, lastTimeSync>>
       ELSE /\ pc' = retpc
            /\ initIdx' = 0
            /\ history' = NoExchange(history)
            /\ UNCHANGED <<devices, hasEndpoints, requestBuffer, lastTimeSync, events>>
    /\ UNCHANGED <<listeners, sensors, detectUnknownSensors, lastDeviceCheck,
                   deviceErrors, lastTimeDelete,
                   output, retpc, devIdx, dev, rawdata, datapoints, ptIdx, lIdx,
                   now, bus, cycle>>

(***************************************************************************)
(* loop                                                                    *)
(***************************************************************************)
\* Entry of loop(): self.clearRequestBuffer().
EnterLoop ==
    /\ pc = "enter"
    /\ requestBuffer' = clearRequestBuffer(requestBuffer)
    /\ pc' = "while"
    /\ history' = [NoExchange(history) EXCEPT !.entered = Len(listeners), !.ops = {}]
    /\ UNCHANGED <<devices, listeners, sensors, detectUnknownSensors,
                   lastDeviceCheck, deviceErrors, lastTimeSync, lastTimeDelete,
                   hasEndpoints,
                   output, retpc, devIdx, initIdx, dev, rawdata, datapoints, ptIdx, lIdx,
                   envVars>>

\* The test of the outer while loop: a new pass over the devices starts,
\* or loop() returns.
WhileTest(maxCycles) ==
    /\ pc = "while"
    /\ IF LoopCondition(listeners)
       THEN /\ cycle < maxCycles
            /\ cycle' = cycle + 1
            /\ pc' = "for"
            /\ devIdx' = 0
            /\ history' = [NoExchange(history) EXCEPT
                              !.ops = {}, !.atStart = devices, !.removed = {},
                              !.failedPrev = history.failed, !.failed = {}]
       ELSE /\ pc' = "returned"
            /\ history' = NoExchange(history)
            /\ UNCHANGED <<cycle, devIdx>>
    /\ UNCHANGED <<progVars, output, retpc, initIdx, dev, rawdata, datapoints,
                   ptIdx, lIdx, now, bus, events>>

\* "for dev in self.devices": the list iterator yields the element at its
\* index in the list as it is now, or ends the pass.
ForNext ==
    /\ pc = "for"
    /\ IF devIdx < Len(devices)
       THEN /\ dev' = IterNext(devices, devIdx)
            /\ devIdx' = devIdx + 1
            /\ pc' = "sync"
       ELSE /\ pc' = "sleep"
            /\ dev' = 0
            /\ devIdx' = 0
    /\ rawdata' = ZeroFrame
    /\ datapoints' = << >>
    /\ ptIdx' = 0
    /\ lIdx' = 0
    /\ history' = [NoFrame(NoExchange(history)) EXCEPT !.parsed = << >>]
    /\ UNCHANGED <<progVars, output, retpc, initIdx, envVars>>

\* if int(time.time()) - dev.lastTimeSync > 900: self.setTime(dev)
SyncStep ==
    /\ pc = "sync"
    /\ pc' = "erase"
    /\ IF SyncDue(now, dev)
       THEN /\ requestBuffer' = SetTimeFrame(requestBuffer, now)
            /\ \E ok \in BOOLEAN :
                  /\ Transfer(dev, hasEndpoints, ok)
                  /\ lastTimeSync' = [lastTimeSync EXCEPT ![dev] = IF ok THEN now ELSE @]
                  /\ history' = Maintenance(history, dev, OpSetTime, ok)
       ELSE /\ history' = NoExchange(history)
            /\ UNCHANGED <<requestBuffer, lastTimeSync, events>>
    /\ UNCHANGED <<devices, listeners, sensors, detectUnknownSensors,
                   lastDeviceCheck, deviceErrors, lastTimeDelete, hasEndpoints,
                   output, retpc, devIdx, initIdx, dev, rawdata, datapoints, ptIdx, lIdx,
                   now, bus, cycle>>

\* if int(time.time()) - dev.lastTimeDelete > 86400: self.deleteDeviceData(dev)
EraseStep ==
    /\ pc = "erase"
    /\ pc' = "poll"
    /\ IF DeleteDue(now, dev)
       THEN /\ requestBuffer' = DeleteFrame(requestBuffer)
            /\ \E ok \in BOOLEAN :
                  /\ Transfer(dev, hasEndpoints, ok)
                  /\ lastTimeDelete' = [lastTimeDelete EXCEPT ![dev] = IF ok THEN now ELSE @]
                  /\ history' = Maintenance(history, dev, OpDelete, ok)
       ELSE /\ history' = NoExchange(history)
            /\ UNCHANGED <<requestBuffer, lastTimeDelete, events>>
    /\ UNCHANGED <<devices, listeners, sensors, detectUnknownSensors,
                   lastDeviceCheck, deviceErrors, lastTimeSync, hasEndpoints,
                   output, retpc, devIdx, initIdx, dev, rawdata, datapoints, ptIdx, lIdx,
                   now, bus, cycle>>

\* The except clause of the inner loop: count the error, remove the device
\* from the list being iterated when there are too many, break.
ExceptClause(d, h) ==
    /\ deviceErrors' = [deviceErrors EXCEPT ![d] = @ + 1]
    /\ IF TooManyErrors(deviceErrors[d] + 1)
       THEN /\ devices' = ListRemove(devices, d)
            /\ history' = [h EXCEPT !.removed = @ \cup {d}, !.dropped = @ \cup {d}]
       ELSE /\ devices' = devices
            /\ history' = h
    /\ pc' = "for"

\* A response that carries data: the frame is parsed and the fan-out of its
\* datapoints starts; an exception of parseData reaches the except clause.
HandleData(data) ==
    LET r == parseData(data, sensors, detectUnknownSensors)
        h == [NoFrame(Exchange(history, dev, OpData, TRUE)) EXCEPT !.parsed = <<data>>]
    IN  /\ sensors' = r.sensors
        /\ IF r.raised
           THEN /\ ExceptClause(dev, h)
                /\ datapoints' = << >>
                /\ UNCHANGED <<ptIdx, lIdx>>
           ELSE /\ datapoints' = r.points
                /\ ptIdx' = 1
                /\ lIdx' = 0
                /\ pc' = "deliver"
                /\ history' = h
                /\ UNCHANGED <<devices, deviceErrors>>

\* One pass of the inner "while True" up to the fan-out: the data request
\* is written and the response read.
PollStep(responses) ==
    /\ pc = "poll"
    /\ requestBuffer' = DataRequestFrame(requestBuffer)
    /\ \E ok \in BOOLEAN :
          /\ Transfer(dev, hasEndpoints, ok)
          /\ IF ~ok
             THEN /\ ExceptClause(dev, Exchange(history, dev, OpData, FALSE))
                  /\ UNCHANGED <<sensors, rawdata, datapoints, ptIdx, lIdx>>
             ELSE \E data \in responses :
                     /\ rawdata' = data
                     /\ IF NoNewData(data)
                        THEN /\ pc' = "for"
                             /\ history' = Exchange(history, dev, OpData, TRUE)
                             /\ UNCHANGED <<devices, deviceErrors, sensors,
                                            datapoints, ptIdx, lIdx>>
                        ELSE HandleData(data)
    /\ UNCHANGED <<listeners, detectUnknownSensors, lastDeviceCheck, lastTimeSync,
                   lastTimeDelete, hasEndpoints, output, retpc, devIdx, initIdx, dev,
                   now, bus, cycle>>

\* One step of "for datapoint in datapoints: for l in self.listeners:
\* l.onNewData(datapoint)": the listener iterator yields the element at its
\* index in the list as it is now, or the next datapoint is taken.
DeliverStep ==
    /\ pc = "deliver"
    /\ ptIdx <= Len(datapoints)
    /\ IF lIdx < Len(listeners)
       THEN LET l == IterNext(listeners, lIdx)
            IN  /\ lIdx' = lIdx + 1
                /\ IF Raises(l)
                   THEN ExceptClause(dev, [NoExchange(history) EXCEPT
                                              !.raised = @ \cup {l}, !.lfault = TRUE])
                   ELSE /\ history' = [NoExchange(history) EXCEPT
                                          !.delivered = Append(@, <<l, ptIdx>>)]
                        /\ UNCHANGED <<devices, deviceErrors, pc>>
                /\ UNCHANGED ptIdx
       ELSE /\ ptIdx' = ptIdx + 1
            /\ lIdx' = 0
            /\ history' = NoExchange(history)
            /\ UNCHANGED <<devices, deviceErrors, pc>>
    /\ UNCHANGED <<listeners, sensors, detectUnknownSensors, requestBuffer,
                   lastDeviceCheck, lastTimeSync, lastTimeDelete, hasEndpoints,
                   output, retpc, devIdx, initIdx, dev, rawdata, datapoints, envVars>>

\* After the last datapoint: dev.deviceErrors = 0, and the inner loop goes on.
DeliverDone ==
    /\ pc = "deliver"
    /\ ptIdx > Len(datapoints)
    /\ deviceErrors' = [deviceErrors EXCEPT ![dev] = 0]
    /\ pc' = "poll"
    /\ history' = NoExchange(history)
    /\ UNCHANGED <<devices, listeners, sensors, detectUnknownSensors, requestBuffer,
                   lastDeviceCheck, lastTimeSync, lastTimeDelete, hasEndpoints,
                   output, retpc, devIdx, initIdx, dev, rawdata, datapoints, ptIdx, lIdx,
                   envVars>>

\* time.sleep(4), then at most once a minute checkForNewDevices and, when
\* the number of devices differs, findDevices and initializeDevices.
SleepStep(steps) ==
    /\ pc = "sleep"
    /\ \E dt \in steps :
          /\ dt = SleepSeconds \/ events < MaxEvents
          /\ events' = IF dt = SleepSeconds THEN events ELSE events + 1
          /\ now' = now + dt
          /\ IF DeviceCheckDue(now + dt)
             THEN IF checkForNewDevices
                  THEN /\ findDevices(now + dt)
                       /\ history' = Rediscovered(NoExchange(history))
                       /\ pc' = "initdev"
                       /\ retpc' = "while"
                       /\ initIdx' = 0
                  ELSE /\ lastDeviceCheck' = now + dt
                       /\ history' = NoExchange(history)
                       /\ pc' = "while"
                       /\ UNCHANGED <<devices, deviceErrors, lastTimeSync, lastTimeDelete,
                                      hasEndpoints, retpc, initIdx>>
             ELSE /\ pc' = "while"
                  /\ history' = NoExchange(history)
                  /\ UNCHANGED <<devices, lastDeviceCheck, deviceErrors, lastTimeSync,
                                 lastTimeDelete, hasEndpoints, retpc, initIdx>>
    /\ UNCHANGED <<listeners, sensors, detectUnknownSensors, requestBuffer,
                   output, devIdx, dev, rawdata, datapoints, ptIdx, lIdx,
                   bus, cycle>>

(***************************************************************************)
(* Environment                                                             *)
(***************************************************************************)
\* A logger is plugged in or unplugged while the process sleeps.
BusChange ==
    /\ pc = "sleep"
    /\ events < MaxEvents
    /\ events' = events + 1
    /\ \E d \in DevIds : bus' = IF d \in bus THEN bus \ {d} ELSE bus \cup {d}
    /\ UNCHANGED <<progVars, loopVars, now, cycle, history>>

\* One logger is unplugged and another one plugged in between two
\* enumerations.
BusSwap ==
    /\ pc = "sleep"
    /\ events < MaxEvents
    /\ events' = events + 1
    /\ \E d \in bus : \E e \in DevIds \ bus : bus' = (bus \ {d}) \cup {e}
    /\ UNCHANGED <<progVars, loopVars, now, cycle, history>>

\* A logger is unplugged after initializeDevices, before loop() makes its
\* first pass.
EarlyUnplug ==
    /\ pc = "enter"
    /\ events < MaxEvents
    /\ events' = events + 1
    /\ \E d \in bus : bus' = bus \ {d}
    /\ UNCHANGED <<progVars, loopVars, now, cycle, history>>

Next ==
    \/ ReadOutputEntry
    \/ \E l \in ListenerIds : unregisterDataListener(l)
    \/ StartUp
    \/ initializeDevices
    \/ EnterLoop
    \/ WhileTest(MaxCycles)
    \/ ForNext
    \/ SyncStep
    \/ EraseStep
    \/ PollStep(Responses)
    \/ DeliverStep
    \/ DeliverDone
    \/ SleepStep(TimeSteps)
    \/ BusChange

Spec == Init /\ [][Next]_vars

\* Many passes with a plain environment: one listener that stays
\* registered, responses with at most one record, no pause of the process.
NextLong ==
    \/ ReadOutputEntry
    \/ StartUp
    \/ initializeDevices
    \/ EnterLoop
    \/ WhileTest(MaxLongCycles)
    \/ ForNext
    \/ SyncStep
    \/ EraseStep
    \/ PollStep(LongResponses)
    \/ DeliverStep
    \/ DeliverDone
    \/ SleepStep(LongTimeSteps)
    \/ BusChange

SpecLong == InitLong /\ [][NextLong]_vars

NextBus ==
    \/ NextLong
    \/ BusSwap
    \/ EarlyUnplug

SpecBus == InitBus /\ [][NextBus]_vars

\* datapoints = self.parseData(rawdata), called again on the same frame.
ParseCall ==
    /\ pc = "parse"
    /\ Len(history.calls) < MaxCalls
    /\ LET r == parseData(rawdata, sensors, detectUnknownSensors)
       IN  /\ sensors' = r.sensors
           /\ datapoints' = r.points
           /\ history' = [history EXCEPT !.calls =
                            Append(@, [points |-> r.points, raised |-> r.raised,
                                       scanned |-> r.scanned, reads |-> r.reads,
                                       before |-> sensors])]
    /\ UNCHANGED <<devices, listeners, detectUnknownSensors, requestBuffer,
                   lastDeviceCheck, deviceErrors, lastTimeSync, lastTimeDelete,
                   hasEndpoints, output, pc, retpc, devIdx, initIdx, dev, rawdata,
                   ptIdx, lIdx, envVars>>

NextParse == ParseCall

SpecParse == InitParse /\ [][NextParse]_vars

(***************************************************************************)
(* The main thread keeps running: a step of it that stays possible is      *)
(* taken.  Nothing obliges a device to answer "no new data".               *)
(***************************************************************************)
MainStep ==
    \/ ReadOutputEntry
    \/ StartUp
    \/ initializeDevices
    \/ EnterLoop
    \/ WhileTest(MaxCycles)
    \/ ForNext
    \/ SyncStep
    \/ EraseStep
    \/ PollStep(Responses)
    \/ DeliverStep
    \/ DeliverDone
    \/ SleepStep(TimeSteps)

SpecFair == Init /\ [][Next]_vars /\ WF_vars(MainStep)

(***************************************************************************)
(* Properties                                                              *)
(***************************************************************************)
\* The sensor ids of a list of datapoints.
Ids(points) == [i \in 1..Len(points) |-> points[i].sensorid]

\* The listeners of a list that do not raise.
Behaving(ls) == {l \in Range(ls) : ~Raises(l)}

\* The number of onNewData calls that handed point k to listener l.
Calls(l, k) ==
    Cardinality({i \in 1..Len(history.delivered) : history.delivered[i] = <<l, k>>})

\* C1: with two listeners registered, one of which raises in onNewData, the
\* other one has received every datapoint of the frame when the handling of
\* the frame is over, in either registration order.
C1_FanOutIsolation ==
    (/\ pc = "for"
     /\ history.parsed # << >>
     /\ ~history.mutated
     /\ Len(listeners) = 2
     /\ history.raised # {})
    => \A l \in Behaving(listeners) : \A k \in 1..Len(datapoints) : Calls(l, k) = 1

\* C2: a step in which a listener's onNewData raises leaves the error
\* counters and the device list as they are and stays in the fan-out (the
\* inner read loop does not end).
C2_ListenerFaultContained ==
    [][(pc = "deliver" /\ history'.lfault)
       => (deviceErrors' = deviceErrors /\ devices' = devices /\ pc' = "deliver")]_vars

\* C3: a device whose data polls fail in consecutive passes is not removed
\* by its 1st to 10th failure in a row, a device whose data polls have
\* failed 11 times in a row is not in the list, and a removal leaves every
\* other device in the list with its counter and timers unchanged.
C3_RemovalThreshold ==
    /\ [](\A d \in history.removed : history.streak[d] \notin 1..10)
    /\ [](\A d \in DevIds : history.streak[d] >= 11 => d \notin Range(devices))
    /\ [][(pc \in {"poll", "deliver"} /\ dev \in Range(devices) /\ dev \notin Range(devices'))
          => \A e \in DevIds \ {dev} :
                /\ e \in Range(devices) <=> e \in Range(devices')
                /\ deviceErrors'[e] = deviceErrors[e]
                /\ lastTimeSync'[e] = lastTimeSync[e]
                /\ lastTimeDelete'[e] = lastTimeDelete[e]]_vars

\* C4: at the end of a pass, every device that was in the list at the start
\* of the pass and was not removed during it has had its data request made.
C4_PassCoversDevices ==
    pc = "sleep" =>
        \A d \in Range(history.atStart) :
            d \in history.removed \/ <<d, OpData>> \in history.ops

\* C5: after an exchange that completed without a transport fault (set
\* clock, erase, a data poll answered "no new data", a data poll whose
\* datapoints have been handed out) the error counter of the device is 0.
C5_ResetOnSuccess ==
    /\ (history.xok /\ history.xop \in {OpSetTime, OpDelete})
           => deviceErrors[history.xdev] = 0
    /\ (history.xok /\ history.xop = OpData /\ NoNewData(rawdata))
           => deviceErrors[history.xdev] = 0
    /\ (pc = "poll" /\ history.parsed # << >>) => deviceErrors[dev] = 0

\* C6: with detection disabled, a response holding records of the sensors
\* 4, 7 and 5, of which 7 is not in the registry, yields the datapoints of 4
\* and 5 for the fan-out and leaves the error counter as it is.
C6_UnknownRecordDropped ==
    [][(/\ pc = "poll"
        /\ ~detectUnknownSensors
        /\ history'.xop = OpData /\ history'.xok
        /\ rawdata' = FrameUnknown)
       => (/\ pc' = "deliver"
           /\ Ids(datapoints') = <<4, 5>>
           /\ deviceErrors' = deviceErrors)]_vars

\* C7: when loop() is entered with no listener registered, no pass starts
\* and no request is made on any device: the loop test returns.
C7_NoListenersNoTransport ==
    history.entered = 0 =>
        /\ pc \in {"while", "returned"}
        /\ cycle = 0
        /\ history.ops = {}
        /\ history.xop = 0

\* loop() has returned without a listener, and without a request, while two
\* devices are in the list whose flash erase is due and of which one has
\* its time sync due.
C7_Witness ==
    /\ pc = "returned"
    /\ history.entered = 0
    /\ history.ops = {}
    /\ Len(devices) = 2
    /\ \A d \in Range(devices) : DeleteDue(now, d)
    /\ \E d \in Range(devices) : SyncDue(now, d)

\* C8: once the last listener has unregistered during a pass, no further
\* pass starts and loop() returns, whatever the devices answer.
C8_ShutdownWithinOneCycle ==
    /\ [][(listeners = << >> /\ history.entered > 0) => cycle' = cycle]_vars
    /\ (listeners = << >> /\ history.entered > 0) ~> (pc = "returned")

\* C9: when no listener raises, a frame that has been handed out has had
\* each of its datapoints passed exactly once to every registered listener,
\* the datapoints in record order.
C9_DeliveryOrder ==
    (/\ pc = "poll"
     /\ history.parsed # << >>
     /\ history.raised = {})
    => /\ \A l \in Range(listeners) : \A k \in 1..Len(datapoints) : Calls(l, k) = 1
       /\ \A i, j \in 1..Len(history.delivered) :
             i < j => history.delivered[i][2] <= history.delivered[j][2]

\* C10: a data poll answered with a frame whose bytes 0 and 1 are zero ends
\* the inner read loop and changes nothing else: parseData is not called,
\* no listener is called, the datapoints, the registry, the error counters
\* and the device list stay as they are.
C10_NoNewData ==
    [][(/\ pc = "poll"
        /\ history'.xop = OpData /\ history'.xok
        /\ rawdata'[0] = 0 /\ rawdata'[1] = 0)
       => (/\ pc' = "for"
           /\ history'.parsed = history.parsed
           /\ history'.delivered = history.delivered
           /\ datapoints' = datapoints
           /\ sensors' = sensors
           /\ deviceErrors' = deviceErrors
           /\ devices' = devices)]_vars

\* A frame with two leading zero bytes and a well-formed record behind
\* them has ended the inner read loop of a device that had delivered data
\* before, and parseData has not been called on it.
C10_Witness ==
    /\ pc = "for"
    /\ rawdata = FrameZeroLead
    /\ history.xop = OpData /\ history.xok
    /\ history.parsed = <<FrameTwo>>
    /\ parseData(rawdata, sensors, detectUnknownSensors).points # << >>


(***************************************************************************)
(* Properties of parseData called on its own                               *)
(***************************************************************************)
Last(q) == q[Len(q)]

\* The frame that agrees with data on the bytes 0..p and holds t after them.
WithTail(data, p, t) == [i \in 0..(FrameLen-1) |-> IF i <= p THEN data[i] ELSE t]

\* Bytes tried behind an end marker.
TailBytes == {0, 4, 9, 10, 255}

\* The scan positions of a call at which a record was decoded.
RecordPositions(c) ==
    SelectSeq(c.scanned,
              LAMBDA x : /\ rawdata[x] \in {9, 10}
                         /\ x <= 54
                         /\ ~(c.raised /\ x = Last(c.scanned)))

\* The record parseData builds from the bytes at q..q+9.
Decoded(data, q, reg) ==
    [sensorid  |-> SensorId(data, q),
     rawvalue  |-> RawValue(data, q),
     timestamp |-> WideAdd(TimeStamp(data, q), TIME_OFFSET),
     signal    |-> Signal(data, q),
     sensor    |-> reg[SensorId(data, q)]]

\* C11: a byte 255 at a scan position p ends the call there: the result is
\* the records decoded at the scan positions before p, and is the same for
\* every frame with the same bytes 0..p; the 8 bytes after the marker of a
\* decoded record are no scan positions, whatever they hold, and the scan
\* goes on behind them.
C11_EndMarkerHalts ==
    \A k \in 1..Len(history.calls) :
        LET c == history.calls[k]
            recs == RecordPositions(c)
        IN  /\ \A n \in 1..Len(c.scanned) :
                  LET p == c.scanned[n]
                  IN  rawdata[p] = 255 =>
                        /\ n = Len(c.scanned)
                        /\ ~c.raised
                        /\ c.points = [i \in 1..Len(recs) |-> Decoded(rawdata, recs[i], sensors)]
                        /\ \A t \in TailBytes :
                              parseData(WithTail(rawdata, p, t), c.before,
                                        detectUnknownSensors).points = c.points
            /\ \A i \in 1..Len(recs) :
                  /\ \A j \in 1..8 : recs[i] + j \notin Range(c.scanned)
                  /\ recs[i] + 9 <= FrameLen - 1 => recs[i] + 9 \in Range(c.scanned)

\* A call has decoded a record whose value and timestamp bytes are 255 and
\* has stopped at the 255 behind it, with other bytes following in the frame.
C11_Witness ==
    /\ Len(history.calls) >= 1
    /\ LET c == history.calls[1]
           p == Last(c.scanned)
       IN  /\ rawdata[p] = 255
           /\ p < FrameLen - 1
           /\ rawdata[p + 1] = 4
           /\ Len(c.points) = 1
           /\ \E q \in Range(RecordPositions(c)) : rawdata[q + 8] = 255

\* The scan positions of a call that hold a marker with room for a record.
MarkerPositions(c) ==
    SelectSeq(c.scanned, LAMBDA x : rawdata[x] \in {9, 10} /\ x <= 54)

\* C12: a call of parseData emits one record for every marker 9 or 10 at a
\* scan position p <= 54, in scan order, and no other: sensorid from the
\* bytes p+1, p+2 (little-endian), rawvalue from p+3, p+4 (big-endian),
\* timestamp from p+5..p+8 (little-endian) plus 946681200, signal the byte
\* p+9 for a marker 10 and none for a marker 9.
C12_RecordDecoding ==
    \A k \in 1..Len(history.calls) :
        LET c == history.calls[k]
            m == MarkerPositions(c)
        IN  /\ Len(c.points) = Len(m)
            /\ \A i \in 1..Len(m) :
                  LET q == m[i]
                      r == c.points[i]
                  IN  /\ r.sensorid = rawdata[q+1] + 256 * rawdata[q+2]
                      /\ r.rawvalue = 256 * rawdata[q+3] + rawdata[q+4]
                      /\ r.timestamp = WideAdd(Wide(rawdata[q+7] + 256 * rawdata[q+8],
                                                    rawdata[q+5] + 256 * rawdata[q+6]),
                                               946681200)
                      /\ r.signal = IF rawdata[q] = 10 THEN <<rawdata[q+9]>> ELSE << >>

\* C13: a second call of parseData on the same frame has the outcome of the
\* first: the same records with the same ids, values, timestamps, signals
\* and resolved sensors (or the same exception), and it leaves the registry
\* as the first call left it.
C13_SameResultTwice ==
    Len(history.calls) = 2 =>
        /\ history.calls[2].points = history.calls[1].points
        /\ history.calls[2].raised = history.calls[1].raised
        /\ history.calls[2].scanned = history.calls[1].scanned
        /\ sensors = history.calls[2].before

\* Two calls on a frame with the records of the sensors 4, 7 and 5, with
\* detection enabled: the first call added sensor 7 to the configured
\* registry, and both calls returned the same three records.
C13_Witness ==
    /\ Len(history.calls) = 2
    /\ rawdata = FrameUnknown
    /\ detectUnknownSensors
    /\ history.calls[1].before = ConfiguredSensors
    /\ 7 \in DOMAIN sensors
    /\ Len(history.calls[2].points) = 3

\* C14: with detection enabled no call raises; a record whose id was not in
\* the registry is resolved to a sensor added under that id, Temperature
\* for an even id and Humidity for an odd one; a sensor that was in the
\* registry is still there unchanged and is what its records resolve to;
\* two records of the same id, in one call or in two, resolve to the same
\* sensor.
C14_UnknownSensorDetection ==
    detectUnknownSensors =>
        \A k \in 1..Len(history.calls) :
            LET c == history.calls[k]
            IN  /\ ~c.raised
                /\ \A id \in DOMAIN c.before : id \in DOMAIN sensors /\ sensors[id] = c.before[id]
                /\ \A i \in 1..Len(c.points) :
                      LET r == c.points[i]
                      IN  /\ r.sensorid \in DOMAIN sensors
                          /\ r.sensor = sensors[r.sensorid]
                          /\ r.sensorid \notin DOMAIN c.before =>
                                /\ r.sensor.id = r.sensorid
                                /\ r.sensor.kind = IF r.sensorid % 2 = 0 THEN "Temperature"
                                                   ELSE "Humidity"
                /\ \A j \in 1..Len(history.calls) :
                      \A i \in 1..Len(c.points) : \A n \in 1..Len(history.calls[j].points) :
                          c.points[i].sensorid = history.calls[j].points[n].sensorid
                              => c.points[i].sensor = history.calls[j].points[n].sensor

\* Two calls with detection enabled on a frame with a record of the odd id
\* 7 and a record of the even id 1028: both were added to the configured
\* registry, which kept its two sensors.
C14_Witness ==
    /\ Len(history.calls) = 2
    /\ detectUnknownSensors
    /\ history.calls[1].before = ConfiguredSensors
    /\ DOMAIN sensors = {4, 5, 7, 1028}
    /\ sensors[7].kind = "Humidity"
    /\ sensors[1028].kind = "Temperature"
    /\ Len(history.calls[2].points) = 2

(***************************************************************************)
(* Properties of device discovery and of the loop                          *)
(***************************************************************************)
\* C15: when initializeDevices returns, every device in the list has its
\* endpoint addresses and has had its set-clock exchange attempted, and
\* every device whose initialization raised is out of the list.
C15_InitializedOrRemoved ==
    [][(pc = "initdev" /\ pc' # "initdev")
       => /\ \A d \in Range(devices') :
                 hasEndpoints'[d] /\ <<d, OpSetTime>> \in history'.ops
          /\ \A d \in history'.initfail : d \notin Range(devices')]_vars

\* C16: a logger the except clause has removed for too many errors is never
\* in the device list again.
C16_RemovedForGood ==
    \A d \in history.dropped : d \notin Range(devices)

\* C17: when the periodic device check has run, every device in the list
\* is enumerated on the bus, whatever has changed on the bus since the
\* last check.
C17_GoneAfterCheck ==
    [][(pc = "sleep" /\ lastDeviceCheck' # lastDeviceCheck)
       => \A d \in Range(devices') : d \in bus']_vars

\* C18: when the fan-out of a datapoint ends, every listener that is in the
\* list at that moment (so before and after any unregistration made while
\* the point was handed out) has received that point exactly once.
C18_UnregisterDuringDelivery ==
    [][(pc = "deliver" /\ ptIdx' = ptIdx + 1)
       => \A l \in Range(listeners) : Calls(l, ptIdx) = 1]_vars

(***************************************************************************)
(* Maintenance                                                             *)
(***************************************************************************)
\* The device is in the list at the start of the pass and is still in it.
InPass(d) == d \in Range(history.atStart) /\ d \notin history.removed

\* C19: in every cycle and for every device of the active set, the set-clock
\* exchange is made exactly when now - lastTimeSync > 900, then the erase
\* exchange exactly when now - lastTimeDelete > 86400, both before the data
\* request; a device with no timer overdue gets data requests only.
C19_MaintenanceWhenDue ==
    /\ [](pc = "sleep" =>
            \A d \in DevIds : InPass(d) =>
                /\ now - lastTimeSync[d] > 900 => <<d, OpSetTime>> \in history.ops
                /\ now - lastTimeDelete[d] > 86400 => <<d, OpDelete>> \in history.ops)
    /\ [][/\ pc = "sync" =>
                /\ (history'.xop = OpSetTime) <=> (now - lastTimeSync[dev] > 900)
                /\ pc' = "erase"
                /\ <<dev, OpDelete>> \notin history.ops
                /\ <<dev, OpData>> \notin history.ops
          /\ pc = "erase" =>
                /\ (history'.xop = OpDelete) <=> (now - lastTimeDelete[dev] > 86400)
                /\ pc' = "poll"
                /\ <<dev, OpData>> \notin history.ops
          /\ pc = "poll" => history'.xop \in {0, OpData}]_vars

\* C20: a set-clock or erase exchange that faults leaves its timestamp as it
\* was and is followed by the data poll of the same device in the same pass;
\* a timestamp changes in loop() only by an exchange that succeeded; and a
\* command that failed in one cycle is attempted again in the next cycle
\* for every device of the active set.
C20_FailedMaintenance ==
    /\ [](pc = "sleep" =>
            \A d \in DevIds : InPass(d) =>
                \A op \in {OpSetTime, OpDelete} :
                    <<d, op>> \in history.failedPrev => <<d, op>> \in history.ops)
    /\ [][/\ (pc \in {"sync", "erase"} /\ history'.xop # 0 /\ ~history'.xok) =>
                /\ lastTimeSync' = lastTimeSync
                /\ lastTimeDelete' = lastTimeDelete
                /\ dev' = dev
                /\ pc' \in {"erase", "poll"}
          /\ (pc \in {"sync", "erase", "poll", "deliver", "for", "while"}
                /\ <<lastTimeSync', lastTimeDelete'>> # <<lastTimeSync, lastTimeDelete>>) =>
                /\ history'.xok
                /\ history'.xop \in {OpSetTime, OpDelete}]_vars

(***************************************************************************)
(* Request frames                                                          *)
(***************************************************************************)
\* C21: the frame of every exchange is 64 bytes long with byte 0 equal to
\* the opcode 3, 4 or 13 of the command; for 3 and 13 the bytes 1..63 are
\* zero; for 4 the bytes 1..4 are now - 946681200 in little-endian order and
\* the bytes 5..63 are zero.
C21_RequestFrames ==
    history.xop # 0 =>
        /\ DOMAIN requestBuffer = 0..63
        /\ history.xop \in {3, 4, 13}
        /\ requestBuffer[0] = history.xop
        /\ history.xop \in {3, 13} => \A i \in 1..63 : requestBuffer[i] = 0
        /\ history.xop = 4 =>
              /\ requestBuffer[1] = (now - 946681200) % 256
              /\ requestBuffer[2] = ((now - 946681200) \div 256) % 256
              /\ requestBuffer[3] = ((now - 946681200) \div 65536) % 256
              /\ requestBuffer[4] = ((now - 946681200) \div 16777216) % 256
              /\ \A i \in 5..63 : requestBuffer[i] = 0

\* A data request or an erase command made on a buffer that has carried a
\* set-clock payload for the same device before.
C21_Witness ==
    /\ history.xop \in {OpData, OpDelete}
    /\ <<history.xdev, OpSetTime>> \in history.ops
    /\ \A i \in 1..63 : requestBuffer[i] = 0

(***************************************************************************)
(* The cursor of parseData                                                 *)
(***************************************************************************)
\* The scan positions of a call behind position p.
Later(c, p) == {x \in Range(c.scanned) : x > p}

\* C22: after a record decoded at the marker position p, of either marker
\* value, the next scan position is p+9 and the bytes p+1..p+8 are no scan
\* positions; the byte at p+9 (the signal byte of a marker-10 record) ends
\* the call when it is 255, starts a further record when it is 9 or 10 and
\* p+9 <= 54, and is passed otherwise; the call returns one record for each
\* such position, so two records back to back are both returned.
C22_CursorAdvance ==
    \A k \in 1..Len(history.calls) :
        LET c == history.calls[k]
            recs == RecordPositions(c)
        IN  /\ ~c.raised =>
                  /\ Len(c.points) = Len(recs)
                  /\ \A i \in 1..Len(recs) :
                        /\ c.points[i].sensorid
                              = rawdata[recs[i] + 1] + 256 * rawdata[recs[i] + 2]
                        /\ rawdata[recs[i]] = 10
                              => c.points[i].signal = <<rawdata[recs[i] + 9]>>
            /\ \A i \in 1..Len(recs) :
                  LET q == recs[i]
                      b == rawdata[q + 9]
                  IN  /\ q + 9 \in Later(c, q)
                      /\ \A x \in Later(c, q) : x >= q + 9
                      /\ b = 255 => Later(c, q) = {q + 9} /\ ~c.raised
                      /\ (b \in {9, 10} /\ q + 9 <= 54) =>
                            \/ i < Len(recs) /\ recs[i + 1] = q + 9
                            \/ c.raised /\ Last(c.scanned) = q + 9
                      /\ (b \notin {9, 10, 255} \/ (b \in {9, 10} /\ q + 9 > 54)) =>
                            (q + 9 < 63 => q + 10 \in Later(c, q))

\* A call that has decoded a marker-10 record whose signal byte is 9 and a
\* second record that starts at that byte.
C22_Witness ==
    /\ Len(history.calls) >= 1
    /\ LET c == history.calls[1]
           recs == RecordPositions(c)
       IN  /\ ~c.raised
           /\ Len(c.points) = 2
           /\ Len(recs) = 2
           /\ rawdata[recs[1]] = 10
           /\ recs[2] = recs[1] + 9
           /\ c.points[1].signal = <<9>>

\* C23: a call of parseData on a 64-byte frame ends; its scan positions
\* increase strictly; every index it reads is in 0..63, a record at 54
\* reading no further than 63; and it returns at most 7 records.
C23_MemorySafe ==
    /\ DOMAIN rawdata = 0..63
    /\ \A k \in 1..Len(history.calls) :
          LET c == history.calls[k]
          IN  /\ \A i \in 1..(Len(c.scanned) - 1) : c.scanned[i] < c.scanned[i + 1]
              /\ \A x \in Range(c.scanned) : x \in 0..63
              /\ \A x \in c.reads : x \in 0..63
              /\ \A q \in Range(RecordPositions(c)) :
                    /\ q <= 54
                    /\ \A j \in 1..8 : q + j \in c.reads
              /\ Len(c.points) <= 7

\* A call that has returned 7 records, the last one a marker-10 record at
\* position 54 whose signal byte is the byte 63.
C23_Witness ==
    /\ Len(history.calls) >= 1
    /\ LET c == history.calls[1]
       IN  /\ Len(c.points) = 7
           /\ rawdata[54] = 10
           /\ 54 \in Range(RecordPositions(c))
           /\ 63 \in c.reads
           /\ c.points[7].signal = <<rawdata[63]>>

====
